---- MODULE Spec2Model ----
(***************************************************************************)
(* Model of the messaging backend's WebSocket core: the connection set      *)
(* (wss.clients), per-connection identity and liveness flag, the chat       *)
(* handlers with their suspension points on messages.json, the fan-out      *)
(* loops, the close handler and the heartbeat.  The repository holds        *)
(* several variants of the server; the variable `variant` selects one:      *)
(*   "robust"   src/unnamed/part_001          (heartbeat, guarded sends)    *)
(*   "advanced" src/server.js        1..160   (handler-wide try/catch)      *)
(*   "brandnew" src/unnamed/part_000          (shared broadcast helper)     *)
(*   "memory"   src/unnamed/part_002 164..362 (in-memory messages array)    *)
(***************************************************************************)
EXTENDS Naturals, Sequences, FiniteSets

\* ---------------------------------------------------------------- bounds
NConn == 2
MaxFaults == 1
\* chat traffic (SpecStore)
StoreChat == 2
StoreReads == 1
\* presence traffic (SpecPresence)
PresenceCtl == 2
PresenceTicks == 2
\* mixed traffic on part_001 (SpecRobust)
RobustChat == 1
RobustCtl == 2
RobustTicks == 2
StartupChat == 1       \* chat messages accepted while the server starts
StartupPushes == 2     \* firings of the one-second push of part_002
AcceptChat == 1        \* chat frames of every shape (SpecAccept)
MaxRegs == 3           \* POST /register requests
MinNameLength == 3     \* username.trim().length < 3
StoredId == 9          \* the id of the message an earlier run left in the log

Conn == 1..NConn

\* ------------------------------------------------------------- JS values
Undefined == "<undefined>"
Names == {"alice", "bob"}
NameOpt == Names \cup {Undefined}
TextOpt == {Undefined, "hello"}
PathOpt == {Undefined, "/uploads/f"}

Variants == {"robust", "advanced", "brandnew", "memory"}
FileVariants == {"robust", "advanced", "brandnew"}

\* JS truthiness of a string-or-undefined value; TruthyAlways takes every value.
TruthyAlways(v) == TRUE
Truthy(v) == v # Undefined /\ v # ""
Or(a, b) == IF Truthy(a) THEN a ELSE b

VARIABLES
  variant,     \* which variant of the server runs
  readyState,  \* ws.readyState per connection: "none" before it connects
  clients,     \* wss.clients, in insertion order
  username,    \* ws.username
  isAlive,     \* ws.isAlive
  file,        \* contents of data/messages.json
  messages,    \* the in-memory messages array ("memory" variant)
  tasks,       \* chat handlers; tasks[i] handles the message with id i
  inbox,       \* per connection: the frames client.send() accepted, in order, each
               \* with the connection whose handler sent it
  bcast,       \* the most recent fan-out loop: who was tried, who threw
  lastRead,    \* body of the most recent GET /messages response
  lastIn,      \* the most recent inbound frame and the connection it came on
  halted,      \* the process died of an uncaught exception
  missed,      \* per connection: consecutive ticks that probed it with no pong since
  pinged,      \* the sockets ws.ping() was called on by the most recent tick
  boot,        \* the server.listen callback: where it is, what it holds
  users,       \* contents of data/users.json
  regs,        \* POST /register requests
  nctl, nticks, nfails, nreads

vars == <<variant, readyState, clients, username, isAlive, file, messages, tasks,
          inbox, bcast, lastRead, lastIn, halted, missed, pinged, boot, users, regs,
          nctl, nticks, nfails, nreads>>

\* ------------------------------------------------------- inbound frames
Data(t, u, x, f, c) == [type |-> t, username |-> u, text |-> x, filePath |-> f, content |-> c]

\* The frames a client sends: every type of every variant's protocol, with and
\* without the fields the handlers read.
InData ==
  {Data(t, u, Undefined, Undefined, Undefined) :
      t \in {"registerUser", "register", "typing", "stopTyping"}, u \in NameOpt}
  \cup {Data(t, Undefined, Undefined, Undefined, Undefined) :
      t \in {"typing_start", "typing_stop", "messages_fetch", "bogus"}}
  \cup {Data("chatMessage", u, "hello", Undefined, Undefined) : u \in NameOpt}
  \cup {Data("chatMessage", "bob", x, f, Undefined) : x \in TextOpt, f \in PathOpt}
  \cup {Data(t, "alice", Undefined, "/uploads/f", Undefined) :
      t \in {"imageMessage", "audioMessage"}}
  \cup {Data(t, Undefined, Undefined, Undefined, c) :
      t \in {"text_message", "image_message"}, c \in TextOpt}

\* What arrives on the socket: the text of a JSON object, or text that is no JSON.
Malformed == [wellFormed |-> FALSE, data |-> Data("bogus", Undefined, Undefined, Undefined, Undefined)]
Json(D) == {[wellFormed |-> TRUE, data |-> d] : d \in D}

\* JSON.parse(message): throws on text that is not JSON. JsonParseThrows is the
\* parser that rejects every text.
JsonParseThrows(raw) == [threw |-> TRUE, data |-> raw.data]
JsonParse(raw) == [threw |-> ~raw.wellFormed, data |-> raw.data]

\* ------------------------------------------------------ outbound frames
\* One record shape for every outbound frame; a key JSON.stringify omits
\* (its value is undefined) holds Undefined, an absent id holds 0.
Frame(t, u, i, mt, c, ms) ==
  [type |-> t, username |-> u, id |-> i, messageType |-> mt, content |-> c, messages |-> ms]

Message(i, u, ts, t, c) == [id |-> i, username |-> u, timestamp |-> ts, type |-> t, content |-> c]

\* { type: t, ...m }: the spread comes last, so a `type` key of m replaces t.
SpreadFrame(t, m) ==
  Frame(IF "type" \in DOMAIN m THEN m.type ELSE t, m.username, m.id, Undefined, m.content, <<>>)

NoFrame == Frame("none", Undefined, 0, Undefined, Undefined, <<>>)

\* ------------------------------------------------------------ fan-out
Range(s) == {s[i] : i \in 1..Len(s)}

\* wss.clients.forEach with the readyState === OPEN test (and client !== ws
\* when `except` is a connection): the clients visited, in iteration order.
\* RecipientsAll is the loop without the readyState test.
RecipientsAll(rs, cl, except) == SelectSeq(cl, LAMBDA c : c # except)
Recipients(rs, cl, except) ==
  SelectSeq(cl, LAMBDA c : rs[c] = "open" /\ c # except)

\* The sets of recipients whose send() may throw in one loop.
FailSets(order) ==
  {F \in SUBSET Range(order) : Cardinality(F) <= MaxFaults - nfails}

FirstThrow(order, F) ==
  IF \E i \in 1..Len(order) : order[i] \in F
  THEN CHOOSE i \in 1..Len(order) : order[i] \in F /\ \A j \in 1..(i - 1) : order[j] \notin F
  ELSE 0

\* A loop whose body is try { client.send(p) } catch: every recipient is tried.
GuardedLoop(order, F) ==
  [tried |-> Range(order), failed |-> Range(order) \cap F, threw |-> FALSE]

\* A loop whose body is a bare client.send(p): the first throw leaves the loop.
BareLoop(order, F) ==
  LET k == FirstThrow(order, F) IN
  IF k = 0
  THEN [tried |-> Range(order), failed |-> {}, threw |-> FALSE]
  ELSE [tried |-> {order[i] : i \in 1..k}, failed |-> {order[k]}, threw |-> TRUE]

\* The effect of one loop on the observable state.
FanOut(kind, from, frame, r) ==
  /\ inbox' = [c \in Conn |->
                 IF c \in r.tried \ r.failed
                 THEN Append(inbox[c], [from |-> from, frame |-> frame]) ELSE inbox[c]]
  /\ bcast' = [n |-> bcast.n + 1, kind |-> kind, from |-> from, frame |-> frame,
               tried |-> r.tried, failed |-> r.failed, threw |-> r.threw]
  /\ nfails' = nfails + Cardinality(r.failed)

NoFanOut == UNCHANGED <<inbox, bcast, nfails>>

\* ------------------------------------------------------------- tasks
\* A suspended chat handler: its connection, its newMessage, where it is suspended,
\* the array it will write, how its read and write went, and the connections that
\* were OPEN when the frame was accepted.
Task(c, m, pc) ==
  [conn |-> c, msg |-> m, pc |-> pc, snapshot |-> <<>>, rok |-> TRUE, wok |-> TRUE,
   audience |-> {b \in Conn : readyState[b] = "open"}]

Finished(t) == [t EXCEPT !.pc = "done", !.snapshot = <<>>]

\* chatMessage -> text, imageMessage -> image, anything else -> audio
KindOf(t) == IF t = "chatMessage" THEN "text" ELSE IF t = "imageMessage" THEN "image" ELSE "audio"

ChatTypes == {"chatMessage", "imageMessage", "audioMessage"}

\* uuidv4(): an id no earlier message of this run carries; Uuidv4Reused is a
\* generator that answers the id it gave last.
Uuidv4Reused == IF tasks = <<>> THEN Len(tasks) + 1 ELSE tasks[Len(tasks)].msg.id
Uuidv4 == Len(tasks) + 1

\* new Date().toISOString() at acceptance: the clock does not run backwards, and
\* two messages may fall in the same millisecond.
Now ==
  IF tasks = <<>> THEN {1}
  ELSE {tasks[Len(tasks)].msg.timestamp, tasks[Len(tasks)].msg.timestamp + 1}

\* The server.listen callback has run to its end: no log existed, none was loaded.
Booted == [pc |-> "done", data |-> <<>>, existed |-> FALSE, log0 |-> <<>>]

\* Nothing has connected, nothing was received, memory holds `let messages = []`.
Idle ==
  /\ readyState = [c \in Conn |-> "none"]
  /\ clients = <<>>
  /\ username = [c \in Conn |-> Undefined]
  /\ isAlive = [c \in Conn |-> FALSE]
  /\ messages = <<>>
  /\ tasks = <<>>
  /\ inbox = [c \in Conn |-> <<>>]
  /\ bcast = [n |-> 0, kind |-> "none", from |-> 0, frame |-> NoFrame,
              tried |-> {}, failed |-> {}, threw |-> FALSE]
  /\ lastRead = <<>>
  /\ lastIn = [conn |-> 0, raw |-> Malformed]
  /\ halted = FALSE
  /\ missed = [c \in Conn |-> 0]
  /\ pinged = {}
  /\ users = <<>>
  /\ regs = <<>>
  /\ nctl = 0
  /\ nticks = 0
  /\ nfails = 0
  /\ nreads = 0

Init ==
  /\ variant \in Variants
  /\ file = <<>>
  /\ boot = Booted
  /\ Idle

\* A fault of the environment (a send that throws, a read or write that fails)
\* is drawn only while the fault budget lasts.
MayFail(ok) == ok \/ nfails < MaxFaults
Fault(ok) == nfails' = IF ok THEN nfails ELSE nfails + 1

\* An unhandled rejection of an async handler ends the process on runtimes that
\* throw on it and is only logged on the others.
Rejected == halted' \in BOOLEAN

\* ============================================== connection, all variants
\* wss.on('connection') of part_001: ws.isAlive = true; ws.on('pong', heartbeat)
OnConnectionRobust(c) ==
  /\ ~halted /\ variant = "robust"
  /\ readyState[c] = "none"
  /\ \A b \in Conn : b < c => readyState[b] # "none"
  /\ readyState' = [readyState EXCEPT ![c] = "open"]
  /\ clients' = Append(clients, c)
  /\ isAlive' = [isAlive EXCEPT ![c] = TRUE]
  /\ UNCHANGED <<variant, pinged, boot, users, regs, username, file, messages, tasks, inbox, bcast, lastRead, lastIn,
                 halted, missed, nctl, nticks, nfails, nreads>>

\* wss.on('connection') of server.js and part_000: only the listeners are set.
OnConnectionPlain(c) ==
  /\ ~halted /\ variant \in {"advanced", "brandnew"}
  /\ readyState[c] = "none"
  /\ \A b \in Conn : b < c => readyState[b] # "none"
  /\ readyState' = [readyState EXCEPT ![c] = "open"]
  /\ clients' = Append(clients, c)
  /\ UNCHANGED <<variant, pinged, boot, users, regs, username, isAlive, file, messages, tasks, inbox, bcast,
                 lastRead, lastIn, halted, missed, nctl, nticks, nfails, nreads>>

ListFrame == Frame("messages_update", Undefined, 0, Undefined, Undefined, messages)

\* try { ws.send(p) } catch (e) {}: one guarded send to ws alone.
SendOne(c, ok) == GuardedLoop(<<c>>, IF ok THEN {} ELSE {c})

\* wss.on('connection') of part_002: the full list is sent to the new socket.
OnConnectionMemory(c, ok) ==
  /\ ~halted /\ variant = "memory"
  /\ readyState[c] = "none"
  /\ \A b \in Conn : b < c => readyState[b] # "none"
  /\ MayFail(ok)
  /\ readyState' = [readyState EXCEPT ![c] = "open"]
  /\ clients' = Append(clients, c)
  /\ FanOut("list", c, ListFrame, SendOne(c, ok))
  /\ UNCHANGED <<variant, pinged, boot, users, regs, username, isAlive, file, messages, tasks, lastRead, lastIn, halted,
                 missed, nctl, nticks, nreads>>

\* function heartbeat() { this.isAlive = true; }, the 'pong' listener;
\* HeartbeatLost is a listener that hears the pong and leaves the flag alone.
HeartbeatLost(c) ==
  /\ ~halted /\ variant = "robust"
  /\ readyState[c] = "open"
  /\ isAlive[c] = FALSE
  /\ missed' = [missed EXCEPT ![c] = 0]
  /\ UNCHANGED <<variant, pinged, boot, users, regs, readyState, clients, username, isAlive,
                 file, messages, tasks, inbox, bcast, lastRead, lastIn, halted, nctl, nticks,
                 nfails, nreads>>
Heartbeat(c) ==
  /\ ~halted /\ variant = "robust"
  /\ readyState[c] = "open"
  /\ isAlive[c] = FALSE
  /\ isAlive' = [isAlive EXCEPT ![c] = TRUE]
  /\ missed' = [missed EXCEPT ![c] = 0]
  /\ UNCHANGED <<variant, pinged, boot, users, regs, readyState, clients, username, file, messages, tasks, inbox,
                 bcast, lastRead, lastIn, halted, nctl, nticks, nfails, nreads>>

\* ====================================================== message handlers
\* Bookkeeping of the inbound frame: which it was, and whether it started a chat task.
Counted(c, raw, isChat) ==
  /\ lastIn' = [conn |-> c, raw |-> raw]
  /\ nctl' = IF isChat THEN nctl ELSE nctl + 1

RobustTypingFrame(c, d) ==
  Frame(IF d.type = "typing" THEN "userTyping" ELSE "userStopTyping",
        Or(username[c], Or(d.username, "Anonymous")), 0, Undefined, Undefined, <<>>)

RobustNewMessage(i, d, ts) ==
  Message(i, d.username, ts, KindOf(d.type), Or(d.text, Or(d.filePath, "")))

\* ws.isAlive once the message listener of part_001 has run on a frame of c: no
\* line of the listener assigns it. FlagAfterFrameRevived is a listener that
\* takes any frame for a sign of life.
FlagAfterFrameRevived(c) == [isAlive EXCEPT ![c] = TRUE]
FlagAfterFrame(c) == isAlive

\* ws.on('message') of part_001, up to its first await
OnMessageRobust(c, raw) ==
  /\ ~halted /\ variant = "robust"
  /\ readyState[c] = "open"
  /\ LET p == JsonParse(raw)
         d == p.data
         accepted == ~p.threw /\ d.type \in ChatTypes /\ Truthy(d.username) IN
     /\ Counted(c, raw, accepted)
     /\ \/ /\ p.threw
           /\ NoFanOut
           /\ UNCHANGED <<username, tasks>>
        \/ /\ ~p.threw /\ d.type = "registerUser"
           /\ username' = [username EXCEPT ![c] = d.username]
           /\ NoFanOut
           /\ UNCHANGED tasks
        \/ /\ ~p.threw /\ d.type \in {"typing", "stopTyping"}
           /\ \E F \in FailSets(Recipients(readyState, clients, c)) :
                FanOut("typing", c, RobustTypingFrame(c, d),
                       GuardedLoop(Recipients(readyState, clients, c), F))
           /\ UNCHANGED <<username, tasks>>
        \/ /\ ~p.threw /\ d.type \in ChatTypes /\ ~Truthy(d.username)
           /\ NoFanOut
           /\ UNCHANGED <<username, tasks>>
        \/ /\ accepted
           /\ \E ts \in Now :
                tasks' = Append(tasks, Task(c, RobustNewMessage(Uuidv4, d, ts), "read"))
           /\ NoFanOut
           /\ UNCHANGED username
        \/ /\ ~p.threw /\ d.type \notin ({"registerUser", "typing", "stopTyping"} \cup ChatTypes)
           /\ NoFanOut
           /\ UNCHANGED <<username, tasks>>
  /\ UNCHANGED <<variant, pinged, boot, users, regs, readyState, clients, file, messages, lastRead,
                 halted, missed, nticks, nreads>>
  /\ isAlive' = FlagAfterFrame(c)

AdvancedTypingFrame(c, d) ==
  Frame(IF d.type = "typing" THEN "userTyping" ELSE "userStopTyping",
        username[c], 0, Undefined, Undefined, <<>>)

AdvancedNewMessage(i, d, ts) ==
  Message(i, d.username, ts, KindOf(d.type), Or(d.text, d.filePath))

\* ws.on('message') of server.js, up to its first await; the whole body is inside
\* try { } catch, which also takes a throw of broadcastToOthers.
OnMessageAdvanced(c, raw) ==
  /\ ~halted /\ variant = "advanced"
  /\ readyState[c] = "open"
  /\ LET p == JsonParse(raw)
         d == p.data
         accepted == ~p.threw /\ d.type \in ChatTypes /\ Truthy(d.username) IN
     /\ Counted(c, raw, accepted)
     /\ \/ /\ p.threw
           /\ NoFanOut
           /\ UNCHANGED <<username, tasks>>
        \/ /\ ~p.threw /\ d.type = "registerUser"
           /\ username' = [username EXCEPT ![c] = d.username]
           /\ NoFanOut
           /\ UNCHANGED tasks
        \/ /\ ~p.threw /\ d.type \in {"typing", "stopTyping"}
           /\ \E F \in FailSets(Recipients(readyState, clients, c)) :
                FanOut("typing", c, AdvancedTypingFrame(c, d),
                       BareLoop(Recipients(readyState, clients, c), F))
           /\ UNCHANGED <<username, tasks>>
        \/ /\ ~p.threw /\ d.type \in ChatTypes /\ ~Truthy(d.username)
           /\ NoFanOut
           /\ UNCHANGED <<username, tasks>>
        \/ /\ accepted
           /\ \E ts \in Now :
                tasks' = Append(tasks, Task(c, AdvancedNewMessage(Uuidv4, d, ts), "read"))
           /\ NoFanOut
           /\ UNCHANGED username
        \/ /\ ~p.threw /\ d.type \notin ({"registerUser", "typing", "stopTyping"} \cup ChatTypes)
           /\ NoFanOut
           /\ UNCHANGED <<username, tasks>>
  /\ UNCHANGED <<variant, pinged, boot, users, regs, readyState, clients, isAlive, file, messages, lastRead,
                 halted, missed, nticks, nreads>>

BrandNewTypingFrame(c, d) ==
  Frame(IF d.type = "typing_start" THEN "user_typing" ELSE "user_stop_typing",
        username[c], 0, Undefined, Undefined, <<>>)

BrandNewMessage(i, c, d, ts) ==
  Message(i, username[c], ts, IF d.type = "text_message" THEN "text" ELSE "image", d.content)

\* const broadcast = (data) => ... of part_000: every OPEN client, bare sends.
BrandNewBroadcast(rs, cl, F) == BareLoop(Recipients(rs, cl, 0), F)

\* ws.on('message') of part_000, up to its first await; only JSON.parse is guarded.
OnMessageBrandNew(c, raw) ==
  /\ ~halted /\ variant = "brandnew"
  /\ readyState[c] = "open"
  /\ LET p == JsonParse(raw)
         d == p.data
         accepted == ~p.threw /\ d.type \in {"text_message", "image_message"} IN
     /\ Counted(c, raw, accepted)
     /\ \/ /\ p.threw
           /\ NoFanOut
           /\ UNCHANGED <<username, tasks, halted>>
        \/ /\ ~p.threw /\ d.type = "register"
           /\ username' = [username EXCEPT ![c] = d.username]
           /\ NoFanOut
           /\ UNCHANGED <<tasks, halted>>
        \/ /\ ~p.threw /\ d.type \in {"typing_start", "typing_stop"}
           /\ \E F \in FailSets(Recipients(readyState, clients, 0)) :
                /\ FanOut("typing", c, BrandNewTypingFrame(c, d),
                          BrandNewBroadcast(readyState, clients, F))
                /\ IF F # {} THEN Rejected ELSE UNCHANGED halted
           /\ UNCHANGED <<username, tasks>>
        \/ /\ accepted
           /\ \E ts \in Now :
                tasks' = Append(tasks, Task(c, BrandNewMessage(Uuidv4, c, d, ts), "read"))
           /\ NoFanOut
           /\ UNCHANGED <<username, halted>>
        \/ /\ ~p.threw
           /\ d.type \notin {"register", "typing_start", "typing_stop",
                             "text_message", "image_message"}
           /\ NoFanOut
           /\ UNCHANGED <<username, tasks, halted>>
  /\ UNCHANGED <<variant, pinged, boot, users, regs, readyState, clients, isAlive, file, messages, lastRead,
                 missed, nticks, nreads>>

MemoryNewMessage(i, c, d, ts) ==
  Message(i, Or(username[c], "anon"), ts,
          IF d.type = "image_message" THEN "image" ELSE "text", d.content)

\* ws.on('message') of part_002, up to its first await; only JSON.parse is guarded.
OnMessageMemory(c, raw) ==
  /\ ~halted /\ variant = "memory"
  /\ readyState[c] = "open"
  /\ LET p == JsonParse(raw)
         d == p.data
         accepted == ~p.threw /\ d.type \in {"text_message", "image_message"} IN
     /\ Counted(c, raw, accepted)
     /\ \/ /\ p.threw
           /\ NoFanOut
           /\ UNCHANGED <<username, tasks, messages, halted>>
        \/ /\ ~p.threw /\ d.type = "register"
           /\ username' = [username EXCEPT ![c] = d.username]
           /\ NoFanOut
           /\ UNCHANGED <<tasks, messages, halted>>
        \/ /\ ~p.threw /\ d.type \in {"typing_start", "typing_stop"}
           /\ \E F \in FailSets(Recipients(readyState, clients, 0)) :
                /\ FanOut("typing", c, BrandNewTypingFrame(c, d),
                          BareLoop(Recipients(readyState, clients, 0), F))
                /\ IF F # {} THEN Rejected ELSE UNCHANGED halted
           /\ UNCHANGED <<username, tasks, messages>>
        \/ /\ accepted
           /\ \E ts \in Now :
                /\ messages' = Append(messages, MemoryNewMessage(Uuidv4, c, d, ts))
                /\ tasks' = Append(tasks, Task(c, MemoryNewMessage(Uuidv4, c, d, ts), "mkdir"))
           /\ NoFanOut
           /\ UNCHANGED <<username, halted>>
        \/ /\ ~p.threw /\ d.type = "messages_fetch"
           /\ \E ok \in BOOLEAN :
                /\ MayFail(ok)
                /\ FanOut("list", c, ListFrame, SendOne(c, ok))
           /\ UNCHANGED <<username, tasks, messages, halted>>
        \/ /\ ~p.threw
           /\ d.type \notin {"register", "typing_start", "typing_stop",
                             "text_message", "image_message", "messages_fetch"}
           /\ NoFanOut
           /\ UNCHANGED <<username, tasks, messages, halted>>
  /\ UNCHANGED <<variant, pinged, boot, users, regs, readyState, clients, isAlive, file, lastRead,
                 missed, nticks, nreads>>

\* app.post('/messages') of part_002, up to its first await: a body without a
\* text is answered 400; otherwise the message is pushed and writeJson starts.
\* The request belongs to no socket: its handler runs as connection 0.
PostMessages(u, x) ==
  /\ ~halted /\ variant = "memory"
  /\ IF Truthy(x)
     THEN \E ts \in Now :
            /\ messages' = Append(messages, Message(Uuidv4, Or(u, "anon"), ts, "text", x))
            /\ tasks' = Append(tasks, Task(0, Message(Uuidv4, Or(u, "anon"), ts, "text", x),
                                          "mkdir"))
     ELSE UNCHANGED <<messages, tasks>>
  /\ UNCHANGED <<variant, pinged, boot, users, regs, readyState, clients, username, isAlive, file, inbox, bcast,
                 lastRead, lastIn, halted, missed, nctl, nticks, nfails, nreads>>

\* ================================================ persistence, suspended
\* readJsonFile(MESSAGES_FILE) settles: the file's array, or [] when the read fails.
ReadJsonFile(ok) == IF ok THEN file ELSE <<>>

\* messages = await readJsonFile(...); messages.push(newMessage); the write starts.
ReadDone(i, ok) ==
  /\ ~halted /\ variant \in FileVariants
  /\ i \in 1..Len(tasks) /\ tasks[i].pc = "read"
  /\ MayFail(ok) /\ Fault(ok)
  /\ tasks' = [tasks EXCEPT ![i] = [@ EXCEPT !.pc = "write", !.rok = ok,
                                      !.snapshot = Append(ReadJsonFile(ok), tasks[i].msg)]]
  /\ UNCHANGED <<variant, pinged, boot, users, regs, readyState, clients, username, isAlive, file, messages, inbox,
                 bcast, lastRead, lastIn, halted, missed, nctl, nticks, nreads>>

\* writeJson of part_002: await fs.mkdir(...) settles; on success the shared array
\* is stringified now and the write starts, on failure writeJson throws.
MkdirDone(i, ok) ==
  /\ ~halted /\ variant = "memory"
  /\ i \in 1..Len(tasks) /\ tasks[i].pc = "mkdir"
  /\ MayFail(ok) /\ Fault(ok)
  /\ tasks' = [tasks EXCEPT ![i] =
                 IF ok THEN [@ EXCEPT !.pc = "write", !.snapshot = messages]
                 ELSE [@ EXCEPT !.pc = "resume", !.wok = FALSE]]
  /\ UNCHANGED <<variant, pinged, boot, users, regs, readyState, clients, username, isAlive, file, messages, inbox,
                 bcast, lastRead, lastIn, halted, missed, nctl, nticks, nreads>>

\* fs.writeFile(filePath, JSON.stringify(data)) takes effect, or fails and leaves the file.
\* WriteJsonFileDropped is a write that reports success and stores nothing.
WriteJsonFileDropped(data, ok) == file
WriteJsonFile(data, ok) == IF ok THEN data ELSE file

\* The write of a suspended handler reaches the disk (or fails); the handler is
\* resumed in a later step.
WriteDone(i, ok) ==
  /\ ~halted
  /\ i \in 1..Len(tasks) /\ tasks[i].pc = "write"
  /\ MayFail(ok) /\ Fault(ok)
  /\ file' = WriteJsonFile(tasks[i].snapshot, ok)
  /\ tasks' = [tasks EXCEPT ![i] = [@ EXCEPT !.pc = "resume", !.wok = ok, !.snapshot = <<>>]]
  /\ UNCHANGED <<variant, pinged, boot, users, regs, readyState, clients, username, isAlive, messages, inbox,
                 bcast, lastRead, lastIn, halted, missed, nctl, nticks, nreads>>

\* ===================================================== handlers, resumed
RobustPayload(m) == Frame("newChatMessage", m.username, m.id, m.type, m.content, <<>>)

\* part_001 after try { save } catch: build broadcastPayload, fan out, guarded sends.
ResumeRobust(i) ==
  /\ ~halted /\ variant = "robust"
  /\ i \in 1..Len(tasks) /\ tasks[i].pc = "resume"
  /\ tasks' = [tasks EXCEPT ![i] = Finished(@)]
  /\ \E F \in FailSets(Recipients(readyState, clients, 0)) :
       FanOut("chat", tasks[i].conn, RobustPayload(tasks[i].msg),
              GuardedLoop(Recipients(readyState, clients, 0), F))
  /\ UNCHANGED <<variant, pinged, boot, users, regs, readyState, clients, username, isAlive, file, messages,
                 lastRead, lastIn, halted, missed, nctl, nticks, nreads>>

\* server.js after await writeJsonFile: a failed write throws into the handler's
\* catch; otherwise broadcast({ type: 'newChatMessage', ...newMessage }), bare sends,
\* whose throw lands in the same catch.
ResumeAdvanced(i) ==
  /\ ~halted /\ variant = "advanced"
  /\ i \in 1..Len(tasks) /\ tasks[i].pc = "resume"
  /\ tasks' = [tasks EXCEPT ![i] = Finished(@)]
  /\ IF tasks[i].wok
     THEN \E F \in FailSets(Recipients(readyState, clients, 0)) :
            FanOut("chat", tasks[i].conn, SpreadFrame("newChatMessage", tasks[i].msg),
                   BareLoop(Recipients(readyState, clients, 0), F))
     ELSE NoFanOut
  /\ UNCHANGED <<variant, pinged, boot, users, regs, readyState, clients, username, isAlive, file, messages,
                 lastRead, lastIn, halted, missed, nctl, nticks, nreads>>

\* part_000 after await writeJson: nothing catches a failed write or a throwing
\* send, the async handler rejects.
ResumeBrandNew(i) ==
  /\ ~halted /\ variant = "brandnew"
  /\ i \in 1..Len(tasks) /\ tasks[i].pc = "resume"
  /\ tasks' = [tasks EXCEPT ![i] = Finished(@)]
  /\ IF tasks[i].wok
     THEN \E F \in FailSets(Recipients(readyState, clients, 0)) :
            /\ FanOut("chat", tasks[i].conn, SpreadFrame("new_message", tasks[i].msg),
                      BrandNewBroadcast(readyState, clients, F))
            /\ IF F # {} THEN Rejected ELSE UNCHANGED halted
     ELSE NoFanOut /\ Rejected
  /\ UNCHANGED <<variant, pinged, boot, users, regs, readyState, clients, username, isAlive, file, messages,
                 lastRead, lastIn, missed, nctl, nticks, nreads>>

\* const broadcastMessages = () => ... of part_002: the whole array, guarded sends.
BroadcastMessages(rs, cl, F) == GuardedLoop(Recipients(rs, cl, 0), F)

\* part_002 after try { await writeJson } catch: broadcastMessages().
ResumeMemory(i) ==
  /\ ~halted /\ variant = "memory"
  /\ i \in 1..Len(tasks) /\ tasks[i].pc = "resume"
  /\ tasks' = [tasks EXCEPT ![i] = Finished(@)]
  /\ \E F \in FailSets(Recipients(readyState, clients, 0)) :
       FanOut("chat", tasks[i].conn, ListFrame, BroadcastMessages(readyState, clients, F))
  /\ UNCHANGED <<variant, pinged, boot, users, regs, readyState, clients, username, isAlive, file, messages,
                 lastRead, lastIn, halted, missed, nctl, nticks, nreads>>

\* ============================================================= teardown
\* The peer closes, or the transport fails: the socket leaves OPEN; its 'close'
\* event is emitted later.
BeginClose(c) ==
  /\ ~halted
  /\ readyState[c] = "open"
  /\ readyState' = [readyState EXCEPT ![c] = "closing"]
  /\ UNCHANGED <<variant, pinged, boot, users, regs, clients, username, isAlive, file, messages, tasks, inbox,
                 bcast, lastRead, lastIn, halted, missed, nctl, nticks, nfails, nreads>>

StopFrame(t, c) == Frame(t, username[c], 0, Undefined, Undefined, <<>>)

\* readyState once the 'close' event of c is emitted; ClosedAll is a teardown that
\* takes every socket with it.
ClosedAll(c) == [b \in Conn |-> "closed"]
Closed(c) == [readyState EXCEPT ![c] = "closed"]
Without(c) == SelectSeq(clients, LAMBDA b : b # c)

\* if (ws.username) of ws.on('close'); AnnouncesAlways is a handler without the test.
AnnouncesAlways(c) == TRUE
Announces(c) == Truthy(username[c])

\* 'close' in part_001: the server drops the socket from wss.clients, then
\* ws.on('close') runs its guarded loop when a username is bound.
OnCloseRobust(c) ==
  /\ ~halted /\ variant = "robust"
  /\ readyState[c] = "closing"
  /\ readyState' = Closed(c)
  /\ clients' = Without(c)
  /\ IF Announces(c)
     THEN \E F \in FailSets(Recipients(Closed(c), Without(c), 0)) :
            FanOut("close", c, StopFrame("userStopTyping", c),
                   GuardedLoop(Recipients(Closed(c), Without(c), 0), F))
     ELSE NoFanOut
  /\ UNCHANGED <<variant, pinged, boot, users, regs, username, isAlive, file, messages, tasks, lastRead, lastIn, halted,
                 missed, nctl, nticks, nreads>>

\* The stop-typing frame of each variant with bare sends in ws.on('close').
BareStopType == IF variant = "advanced" THEN "userStopTyping" ELSE "user_stop_typing"

\* 'close' in server.js, part_000 and part_002: the loop's sends are bare, and a
\* throw inside an event listener is an uncaught exception.
OnCloseBare(c) ==
  /\ ~halted /\ variant \in {"advanced", "brandnew", "memory"}
  /\ readyState[c] = "closing"
  /\ readyState' = Closed(c)
  /\ clients' = Without(c)
  /\ IF Announces(c)
     THEN \E F \in FailSets(Recipients(Closed(c), Without(c), 0)) :
            /\ FanOut("close", c, StopFrame(BareStopType, c),
                      BareLoop(Recipients(Closed(c), Without(c), 0), F))
            /\ halted' = (F # {})
     ELSE NoFanOut /\ UNCHANGED halted
  /\ UNCHANGED <<variant, pinged, boot, users, regs, username, isAlive, file, messages, tasks, lastRead, lastIn,
                 missed, nctl, nticks, nreads>>

\* ws.terminate(): an OPEN socket becomes CLOSING and is destroyed; its 'close'
\* event comes later. TerminateSkipped is the tick that only probes.
TerminateSkipped(rs, c) == rs[c]
Terminate(rs, c) == IF rs[c] = "open" THEN "closing" ELSE rs[c]

\* The setInterval callback of part_001: every socket of wss.clients, whatever
\* its readyState.
\* The sockets the tick calls ws.ping(noop) on: those it did not `return` from
\* after terminate(). ProbedAll is a tick without that return.
ProbedAll(cl, alive) == Range(cl)
Probed(cl, alive) == {c \in Range(cl) : alive[c] # FALSE}

Tick ==
  /\ ~halted /\ variant = "robust"
  /\ nticks' = nticks + 1
  /\ readyState' = [c \in Conn |->
                      IF c \in Range(clients) /\ isAlive[c] = FALSE
                      THEN Terminate(readyState, c) ELSE readyState[c]]
  /\ isAlive' = [c \in Conn |-> IF c \in Range(clients) THEN FALSE ELSE isAlive[c]]
  /\ pinged' = Probed(clients, isAlive)
  /\ missed' = [c \in Conn |->
                  IF c \in Range(clients) /\ missed[c] < 2 THEN missed[c] + 1 ELSE missed[c]]
  /\ UNCHANGED <<variant, boot, users, regs, clients, username, file, messages, tasks, inbox, bcast,
                 lastRead, lastIn, halted, nctl, nfails, nreads>>

\* GET /messages: from the file (a failed read answers []) or, in part_002, from memory.
GetMessages(ok) ==
  /\ ~halted
  /\ MayFail(ok) /\ Fault(ok)
  /\ ok \/ variant # "memory"
  /\ nreads' = nreads + 1
  /\ lastRead' = IF variant = "memory" THEN messages ELSE ReadJsonFile(ok)
  /\ UNCHANGED <<variant, pinged, boot, users, regs, readyState, clients, username, isAlive, file, messages, tasks,
                 inbox, bcast, lastIn, halted, missed, nctl, nticks>>

\* ======================================================= specifications
\* ============================================================== startup
\* fsSync.existsSync(MESSAGES_FILE): the log was there at startup, or a handler's
\* write has created it since (a handler never writes an empty array).
LogExists == boot.existed \/ file # <<>>

\* An await of the server.listen callback fails: part_001 catches it and calls
\* process.exit(1); the callback of part_002 is an async function that rejects.
BootFailed ==
  /\ boot' = [boot EXCEPT !.pc = "failed"]
  /\ IF variant = "robust" THEN halted' = TRUE ELSE Rejected

\* The directories are made. part_001 then tests existsSync in the same turn and
\* starts writeJsonFile(MESSAGES_FILE, []) only when the log is missing; part_002
\* starts readJson(MESSAGES_FILE).
BootMkdir(ok) ==
  /\ ~halted /\ boot.pc = "mkdir"
  /\ MayFail(ok) /\ Fault(ok)
  /\ IF ok
     THEN /\ boot' = [boot EXCEPT !.pc = IF variant = "memory" THEN "read"
                                         ELSE IF LogExists THEN "done" ELSE "write",
                                   !.data = <<>>]
          /\ UNCHANGED halted
     ELSE BootFailed
  /\ UNCHANGED <<variant, pinged, users, regs, readyState, clients, username, isAlive, file,
                 messages, tasks, inbox, bcast, lastRead, lastIn, missed, nctl, nticks, nreads>>

\* part_002: await readJson(MESSAGES_FILE) settles, [] on any error; writeJson of
\* what was read starts.
BootRead(ok) ==
  /\ ~halted /\ variant = "memory" /\ boot.pc = "read"
  /\ MayFail(ok) /\ Fault(ok)
  /\ boot' = [boot EXCEPT !.pc = "write", !.data = ReadJsonFile(ok)]
  /\ UNCHANGED <<variant, pinged, users, regs, readyState, clients, username, isAlive, file,
                 messages, tasks, inbox, bcast, lastRead, lastIn, halted, missed, nctl, nticks,
                 nreads>>

\* The write of the startup reaches the disk, or fails.
BootWrite(ok) ==
  /\ ~halted /\ boot.pc = "write"
  /\ MayFail(ok) /\ Fault(ok)
  /\ file' = WriteJsonFile(boot.data, ok)
  /\ IF ok
     THEN /\ boot' = [boot EXCEPT !.pc = IF variant = "memory" THEN "load" ELSE "done",
                                   !.data = <<>>]
          /\ UNCHANGED halted
     ELSE BootFailed
  /\ UNCHANGED <<variant, pinged, users, regs, readyState, clients, username, isAlive,
                 messages, tasks, inbox, bcast, lastRead, lastIn, missed, nctl, nticks, nreads>>

\* part_002: messages = await readJson(MESSAGES_FILE); the array the handlers have
\* pushed to is replaced by what was read.
BootLoad(ok) ==
  /\ ~halted /\ variant = "memory" /\ boot.pc = "load"
  /\ MayFail(ok) /\ Fault(ok)
  /\ messages' = ReadJsonFile(ok)
  /\ boot' = [boot EXCEPT !.pc = "done"]
  /\ UNCHANGED <<variant, pinged, users, regs, readyState, clients, username, isAlive, file,
                 tasks, inbox, bcast, lastRead, lastIn, halted, missed, nctl, nticks, nreads>>

\* setInterval(() => broadcastMessages(), 1000) of part_002 fires.
PeriodicPush ==
  /\ ~halted /\ variant = "memory"
  /\ nticks' = nticks + 1
  /\ \E F \in FailSets(Recipients(readyState, clients, 0)) :
       FanOut("list", 0, ListFrame, BroadcastMessages(readyState, clients, F))
  /\ UNCHANGED <<variant, pinged, boot, users, regs, readyState, clients, username, isAlive,
                 file, messages, tasks, lastRead, lastIn, halted, missed, nctl, nreads>>

\* ========================================================= POST /register
\* Names a client may ask for: none, one that is too short, and two that differ
\* in case only.
RegNames == {Undefined, "al", "Bob", "bob"}

\* username.trim().length
TrimLength(n) == IF n = "al" THEN 2 ELSE MinNameLength

\* u.toLowerCase()
ToLowerCase(n) == IF n = "Bob" THEN "bob" ELSE n

\* users.find(u => u.toLowerCase() === username.toLowerCase())
Taken(us, n) == \E k \in 1..Len(us) : ToLowerCase(us[k]) = ToLowerCase(n)

Request(n, pc, st) == [name |-> n, pc |-> pc, status |-> st, list |-> <<>>]

\* app.post('/register') up to its first await: 400 for a missing or short name,
\* otherwise readJsonFile(USERS_FILE) starts.
PostRegister(n) ==
  /\ ~halted /\ variant \in {"robust", "advanced"}
  /\ regs' = Append(regs, IF ~Truthy(n) \/ TrimLength(n) < MinNameLength
                          THEN Request(n, "done", 400) ELSE Request(n, "read", 0))
  /\ UNCHANGED <<variant, pinged, boot, users, readyState, clients, username, isAlive, file,
                 messages, tasks, inbox, bcast, lastRead, lastIn, halted, missed, nctl, nticks,
                 nfails, nreads>>

\* readJsonFile(USERS_FILE) settles, [] when the read fails: 409 if the name is
\* found ignoring case, otherwise users.push(username) and the write starts.
RegisterRead(i, ok) ==
  /\ ~halted
  /\ i \in 1..Len(regs) /\ regs[i].pc = "read"
  /\ MayFail(ok) /\ Fault(ok)
  /\ LET us == IF ok THEN users ELSE <<>> IN
     regs' = [regs EXCEPT ![i] =
                IF Taken(us, regs[i].name)
                THEN [@ EXCEPT !.pc = "done", !.status = 409]
                ELSE [@ EXCEPT !.pc = "write", !.list = Append(us, regs[i].name)]]
  /\ UNCHANGED <<variant, pinged, boot, users, readyState, clients, username, isAlive, file,
                 messages, tasks, inbox, bcast, lastRead, lastIn, halted, missed, nctl, nticks,
                 nreads>>

\* writeJsonFile(USERS_FILE, users) settles: 201 on success; on failure part_001
\* answers 500 from its catch, server.js has no catch and the handler rejects
\* without an answer.
RegisterWrite(i, ok) ==
  /\ ~halted
  /\ i \in 1..Len(regs) /\ regs[i].pc = "write"
  /\ MayFail(ok) /\ Fault(ok)
  /\ users' = IF ok THEN regs[i].list ELSE users
  /\ regs' = [regs EXCEPT ![i] =
                [@ EXCEPT !.pc = "done", !.list = <<>>,
                          !.status = IF ok THEN 201 ELSE IF variant = "robust" THEN 500 ELSE 0]]
  /\ IF ~ok /\ variant = "advanced" THEN Rejected ELSE UNCHANGED halted
  /\ UNCHANGED <<variant, pinged, boot, readyState, clients, username, isAlive, file,
                 messages, tasks, inbox, bcast, lastRead, lastIn, missed, nctl, nticks, nreads>>

Chatty == ChatTypes \cup {"text_message", "image_message"}

\* Chat traffic: a frame part_001 and server.js accept, and a frame part_000
\* and part_002 accept.
StoreRaw ==
  Json({Data("chatMessage", "alice", "hello", Undefined, Undefined),
        Data("text_message", Undefined, Undefined, Undefined, "hello")})

\* Presence traffic: every frame that is no chat frame, text that is no JSON, and
\* the chat frame that carries a text and no username.
TextOnly == Data("chatMessage", Undefined, "hello", Undefined, Undefined)
CtlRaw == Json({d \in InData : d.type \notin Chatty} \cup {TextOnly}) \cup {Malformed}

\* The frames that start a chat handler in the running variant.
StartsChat(raw) ==
  /\ raw.wellFormed
  /\ IF variant \in {"robust", "advanced"}
     THEN raw.data.type \in ChatTypes /\ Truthy(raw.data.username)
     ELSE raw.data.type \in {"text_message", "image_message"}

StoreBudget(raw) == StartsChat(raw) /\ Len(tasks) < StoreChat

\* Chat traffic: connections come and go, chat frames are persisted and fanned
\* out, the history is read.
NextStore ==
  \/ \E c \in Conn : OnConnectionRobust(c)
  \/ \E c \in Conn : OnConnectionPlain(c)
  \/ \E c \in Conn, ok \in BOOLEAN : OnConnectionMemory(c, ok)
  \/ \E c \in Conn, raw \in StoreRaw : StoreBudget(raw) /\ OnMessageRobust(c, raw)
  \/ \E c \in Conn, raw \in StoreRaw : StoreBudget(raw) /\ OnMessageAdvanced(c, raw)
  \/ \E c \in Conn, raw \in StoreRaw : StoreBudget(raw) /\ OnMessageBrandNew(c, raw)
  \/ \E c \in Conn, raw \in StoreRaw : StoreBudget(raw) /\ OnMessageMemory(c, raw)
  \/ \E x \in TextOpt : Len(tasks) < StoreChat /\ PostMessages(Undefined, x)
  \/ \E i \in 1..StoreChat, ok \in BOOLEAN : ReadDone(i, ok)
  \/ \E i \in 1..StoreChat, ok \in BOOLEAN : MkdirDone(i, ok)
  \/ \E i \in 1..StoreChat, ok \in BOOLEAN : WriteDone(i, ok)
  \/ \E i \in 1..StoreChat : ResumeRobust(i)
  \/ \E i \in 1..StoreChat : ResumeAdvanced(i)
  \/ \E i \in 1..StoreChat : ResumeBrandNew(i)
  \/ \E i \in 1..StoreChat : ResumeMemory(i)
  \/ \E c \in Conn : BeginClose(c)
  \/ \E c \in Conn : OnCloseRobust(c)
  \/ \E c \in Conn : OnCloseBare(c)
  \/ \E ok \in BOOLEAN : nreads < StoreReads /\ GetMessages(ok)

SpecStore == Init /\ [][NextStore]_vars

\* Presence traffic: registration, typing indicators, teardown and the heartbeat.
NextPresence ==
  \/ \E c \in Conn : OnConnectionRobust(c)
  \/ \E c \in Conn : OnConnectionPlain(c)
  \/ \E c \in Conn, ok \in BOOLEAN : OnConnectionMemory(c, ok)
  \/ \E c \in Conn, raw \in CtlRaw : nctl < PresenceCtl /\ OnMessageRobust(c, raw)
  \/ \E c \in Conn, raw \in CtlRaw : nctl < PresenceCtl /\ OnMessageAdvanced(c, raw)
  \/ \E c \in Conn, raw \in CtlRaw : nctl < PresenceCtl /\ OnMessageBrandNew(c, raw)
  \/ \E c \in Conn, raw \in CtlRaw : nctl < PresenceCtl /\ OnMessageMemory(c, raw)
  \/ \E c \in Conn : Heartbeat(c)
  \/ nticks < PresenceTicks /\ Tick
  \/ \E c \in Conn : BeginClose(c)
  \/ \E c \in Conn : OnCloseRobust(c)
  \/ \E c \in Conn : OnCloseBare(c)

SpecPresence == Init /\ [][NextPresence]_vars

\* part_001 alone under mixed traffic: chat frames whose handlers suspend, the
\* control frames its handler distinguishes, teardown and the heartbeat, all in
\* one run.
RobustCtlRaw ==
  Json({Data("registerUser", "alice", Undefined, Undefined, Undefined),
        Data("typing", Undefined, Undefined, Undefined, Undefined)}) \cup {Malformed}

RobustBudget(raw) == StartsChat(raw) /\ Len(tasks) < RobustChat

InitRobust == Init /\ variant = "robust"

NextRobust ==
  \/ \E c \in Conn : OnConnectionRobust(c)
  \/ \E c \in Conn, raw \in StoreRaw : RobustBudget(raw) /\ OnMessageRobust(c, raw)
  \/ \E c \in Conn, raw \in RobustCtlRaw : nctl < RobustCtl /\ OnMessageRobust(c, raw)
  \/ \E i \in 1..RobustChat, ok \in BOOLEAN : ReadDone(i, ok)
  \/ \E i \in 1..RobustChat, ok \in BOOLEAN : WriteDone(i, ok)
  \/ \E i \in 1..RobustChat : ResumeRobust(i)
  \/ \E c \in Conn : Heartbeat(c)
  \/ nticks < RobustTicks /\ Tick
  \/ \E c \in Conn : BeginClose(c)
  \/ \E c \in Conn : OnCloseRobust(c)

SpecRobust == InitRobust /\ [][NextRobust]_vars

\* The server starts over a log left by an earlier run, over an empty log, or
\* over none; it listens before its startup has run, so traffic may arrive at
\* any point of it.
StoredLog == <<Message(StoredId, "bob", 0, "text", "old")>>

InitStartup ==
  /\ variant \in {"robust", "memory"}
  /\ \E e \in BOOLEAN, f \in {<<>>, StoredLog} :
       /\ e \/ f = <<>>
       /\ file = f
       /\ boot = [pc |-> "mkdir", data |-> <<>>, existed |-> e, log0 |-> f]
  /\ Idle

StartupBudget(raw) == StartsChat(raw) /\ Len(tasks) < StartupChat

NextStartup ==
  \/ \E ok \in BOOLEAN : BootMkdir(ok)
  \/ \E ok \in BOOLEAN : BootRead(ok)
  \/ \E ok \in BOOLEAN : BootWrite(ok)
  \/ \E ok \in BOOLEAN : BootLoad(ok)
  \/ \E c \in Conn : OnConnectionRobust(c)
  \/ \E c \in Conn, ok \in BOOLEAN : OnConnectionMemory(c, ok)
  \/ \E c \in Conn, raw \in StoreRaw : StartupBudget(raw) /\ OnMessageRobust(c, raw)
  \/ \E c \in Conn, raw \in StoreRaw : StartupBudget(raw) /\ OnMessageMemory(c, raw)
  \/ \E i \in 1..StartupChat, ok \in BOOLEAN : ReadDone(i, ok)
  \/ \E i \in 1..StartupChat, ok \in BOOLEAN : MkdirDone(i, ok)
  \/ \E i \in 1..StartupChat, ok \in BOOLEAN : WriteDone(i, ok)
  \/ \E i \in 1..StartupChat : ResumeRobust(i)
  \/ \E i \in 1..StartupChat : ResumeMemory(i)
  \/ nticks < StartupPushes /\ PeriodicPush

SpecStartup == InitStartup /\ [][NextStartup]_vars

\* Registration requests alone, on part_001 and server.js.
InitRegister == Init /\ variant \in {"robust", "advanced"}

NextRegister ==
  \/ \E n \in RegNames : Len(regs) < MaxRegs /\ PostRegister(n)
  \/ \E i \in 1..MaxRegs, ok \in BOOLEAN : RegisterRead(i, ok)
  \/ \E i \in 1..MaxRegs, ok \in BOOLEAN : RegisterWrite(i, ok)

SpecRegister == InitRegister /\ [][NextRegister]_vars

\* Chat frames of part_001 and server.js of every type, with and without a text
\* and a filePath, from a named author.
AcceptRaw ==
  Json({Data(t, "bob", x, f, Undefined) : t \in ChatTypes, x \in TextOpt, f \in PathOpt})

InitAccept == Init /\ variant \in {"robust", "advanced"}

NextAccept ==
  \/ \E c \in Conn : OnConnectionRobust(c)
  \/ \E c \in Conn : OnConnectionPlain(c)
  \/ \E c \in Conn, raw \in AcceptRaw : Len(tasks) < AcceptChat /\ OnMessageRobust(c, raw)
  \/ \E c \in Conn, raw \in AcceptRaw : Len(tasks) < AcceptChat /\ OnMessageAdvanced(c, raw)
  \/ \E i \in 1..AcceptChat, ok \in BOOLEAN : ReadDone(i, ok)
  \/ \E i \in 1..AcceptChat, ok \in BOOLEAN : WriteDone(i, ok)
  \/ \E i \in 1..AcceptChat : ResumeRobust(i)
  \/ \E i \in 1..AcceptChat : ResumeAdvanced(i)

SpecAccept == InitAccept /\ [][NextAccept]_vars

\* ================================================================ claims
OpenNow == {c \in Conn : readyState[c] = "open"}
OpenNext == {c \in Conn : readyState'[c] = "open"}
AllDone == \A i \in 1..Len(tasks) : tasks[i].pc = "done"
Occurrences(seq, m) == Cardinality({k \in 1..Len(seq) : seq[k] = m})
Ids(seq) == [k \in 1..Len(seq) |-> seq[k].id]
ChatEntries(seq) == SelectSeq(seq, LAMBDA e : e.frame.id # 0)
ChatIdsOf(seq) == [k \in 1..Len(ChatEntries(seq)) |-> ChatEntries(seq)[k].frame.id]
Resumed(i) == i \in 1..Len(tasks) /\ tasks[i].pc = "resume" /\ tasks'[i].pc = "done"
FannedOut == bcast'.n # bcast.n
Entry(c, f) == [from |-> c, frame |-> f]

\* C1: in part_001 and server.js, once the chat handlers of different connections
\* have all finished, and no read, write or send failed, the durable log holds
\* every accepted message exactly once.
DistinctSenders ==
  \A i, j \in 1..Len(tasks) : i # j => tasks[i].conn # tasks[j].conn
C1_AppendsSerialized ==
  (AllDone /\ nfails = 0 /\ DistinctSenders /\ variant \in {"robust", "advanced"}) =>
    \A i \in 1..Len(tasks) : Occurrences(file, tasks[i].msg) = 1

\* C2: in part_001, once every handler has finished and nothing failed, a
\* connection that was OPEN when each message was accepted and still is has
\* received the newChatMessage frames in the order of the log, each logged
\* message once and nothing else.
StayedOpen(p) ==
  /\ readyState[p] = "open"
  /\ \A i \in 1..Len(tasks) : p \in tasks[i].audience
C2_SameOrderedView ==
  (AllDone /\ nfails = 0 /\ variant = "robust") =>
    \A p \in Conn : StayedOpen(p) => ChatIdsOf(inbox[p]) = Ids(file)

\* C3: in part_001 and server.js, the resumption of an accepted chat event sends
\* one newChatMessage frame carrying its id to every connection that is OPEN then,
\* the sender included.
C3_ChatReachesAll ==
  [][\A i \in 1..StoreChat :
       (Resumed(i) /\ variant \in {"robust", "advanced"}) =>
         /\ bcast'.n = bcast.n + 1
         /\ bcast'.frame.type = "newChatMessage"
         /\ bcast'.frame.id = tasks[i].msg.id
         /\ bcast'.tried = OpenNow]_vars

\* C4: in part_001, part_000 and part_002 a typing or stop-typing event is sent to
\* every OPEN connection but its originator, and never to the originator.
C4_NoTypingEcho ==
  [][(FannedOut /\ bcast'.kind = "typing" /\ variant \in {"robust", "brandnew", "memory"}) =>
       /\ bcast'.from \notin bcast'.tried
       /\ bcast'.tried = OpenNow \ {bcast'.from}]_vars

\* C5: in part_001 and server.js, once a connection bound to "alice" has sent a
\* chatMessage frame with the text "hello" and no username, a handler stores a
\* text message of author "alice" with content "hello" for it.
C5_BoundAuthorStored ==
  (/\ variant \in {"robust", "advanced"}
   /\ lastIn.conn \in Conn
   /\ lastIn.raw = [wellFormed |-> TRUE, data |-> TextOnly]
   /\ username[lastIn.conn] = "alice") =>
    \E i \in 1..Len(tasks) :
      /\ tasks[i].conn = lastIn.conn
      /\ tasks[i].msg.username = "alice"
      /\ tasks[i].msg.type = "text"
      /\ tasks[i].msg.content = "hello"

\* C6: in part_001, with no failed send: an OPEN peer that received a userTyping
\* frame caused by a connection that has since been torn down has received, after
\* it, a userStopTyping frame with the same username.
C6_NoGhostTyping ==
  (variant = "robust" /\ nfails = 0) =>
    \A c \in Conn, p \in Conn :
      (readyState[c] = "closed" /\ readyState[p] = "open") =>
        \A k \in 1..Len(inbox[p]) :
          (inbox[p][k].from = c /\ inbox[p][k].frame.type = "userTyping") =>
            \E j \in (k + 1)..Len(inbox[p]) :
              /\ inbox[p][j].frame.type = "userStopTyping"
              /\ inbox[p][j].frame.username = inbox[p][k].frame.username

\* C7 as stated: a connection probed by two consecutive ticks with no pong in
\* between is out of wss.clients as soon as the second tick has run.
C7_RemovedByTick ==
  \A c \in Conn : missed[c] >= 2 => c \notin Range(clients)

\* C7 as amended: such a connection has left OPEN when the second tick has run;
\* its 'close' event removes it from wss.clients and, when a username is bound,
\* runs exactly one loop that tries one userStopTyping frame of that username on
\* every connection that is OPEN then, and delivers it where the send does not
\* throw; with no username bound nothing is sent.
C7_EvictedOnce ==
  [][/\ \A c \in Conn : missed'[c] >= 2 => readyState'[c] \in {"closing", "closed"}
     /\ \A c \in Conn :
          (missed[c] >= 2 /\ readyState[c] = "closing" /\ readyState'[c] = "closed") =>
            /\ c \notin Range(clients')
            /\ IF Truthy(username[c])
               THEN /\ bcast'.n = bcast.n + 1
                    /\ bcast'.kind = "close" /\ bcast'.from = c
                    /\ bcast'.frame = Frame("userStopTyping", username[c], 0,
                                            Undefined, Undefined, <<>>)
                    /\ bcast'.tried = OpenNext
                    /\ \A p \in Conn :
                         inbox'[p] = IF p \in OpenNext \ bcast'.failed
                                     THEN Append(inbox[p], Entry(c, bcast'.frame))
                                     ELSE inbox[p]
               ELSE inbox' = inbox /\ bcast' = bcast]_vars

\* C7 witness: an evicted connection with a bound username has been closed and
\* an OPEN peer holds the userStopTyping frame of its teardown.
C7_Witness ==
  \E c \in Conn, p \in Conn :
    /\ missed[c] = 2 /\ readyState[c] = "closed" /\ Truthy(username[c])
    /\ readyState[p] = "open"
    /\ bcast.kind = "close" /\ bcast.from = c /\ p \in bcast.tried
    /\ Len(inbox[p]) > 0
    /\ inbox[p][Len(inbox[p])] = Entry(c, Frame("userStopTyping", username[c], 0,
                                                Undefined, Undefined, <<>>))

\* C8: in part_001, server.js and part_002 a handler whose durable write failed
\* still fans its message out to every OPEN connection when it resumes.
C8_BroadcastDespiteFailure ==
  [][\A i \in 1..StoreChat :
       (Resumed(i) /\ ~tasks[i].wok /\ variant \in {"robust", "advanced", "memory"}) =>
         /\ bcast'.n = bcast.n + 1
         /\ bcast'.kind = "chat"
         /\ bcast'.tried = OpenNow]_vars

\* C9: in part_001 and part_002 every message some connection has been sent is in
\* the body of every later GET /messages whose own read succeeds.
BroadcastIds ==
  UNION {{inbox[c][k].frame.id : k \in 1..Len(inbox[c])} \ {0} : c \in Conn}
  \cup UNION {UNION {Range(Ids(inbox[c][k].frame.messages)) : k \in 1..Len(inbox[c])} : c \in Conn}
C9_HistoryKeepsBroadcast ==
  [][(nreads' = nreads + 1 /\ nfails' = nfails /\ variant \in {"robust", "memory"}) =>
       BroadcastIds \subseteq Range(Ids(lastRead'))]_vars

\* C10: in part_001 and server.js a send that throws inside a fan-out loop stays
\* inside it: the loop does not throw, and every intended recipient (the OPEN
\* connections, less the originator for a typing event) whose own send did not
\* throw gets the frame.
Intended ==
  IF bcast'.kind = "typing" THEN OpenNext \ {bcast'.from} ELSE OpenNext
C10_FailureIsolated ==
  [][(FannedOut /\ variant \in {"robust", "advanced"}) =>
       /\ ~bcast'.threw
       /\ \A p \in Intended \ bcast'.failed :
            inbox'[p] = Append(inbox[p], Entry(bcast'.from, bcast'.frame))]_vars

\* C11: in part_001 and server.js, with no failed read, write or send: of two chat
\* frames accepted on the same connection, the later one has no effect (its write
\* has not completed, its fan-out has not run) before the handler of the earlier
\* one has finished.
C11_ArrivalOrder ==
  (nfails = 0 /\ variant \in {"robust", "advanced"}) =>
    \A i, j \in 1..Len(tasks) :
      (i < j /\ tasks[i].conn = tasks[j].conn /\ tasks[j].pc \in {"resume", "done"}) =>
        tasks[i].pc = "done"

\* C12: in part_001 every fan-out loop tries exactly the connections that are
\* OPEN when it runs (less the originator for a typing event), whenever they were
\* added, and no frame reaches a connection that is not OPEN, also when it closed
\* while the handler that fans out was suspended; no frame is delivered outside a
\* fan-out loop.
C12_OnlyLiveRecipients ==
  [][IF FannedOut
     THEN /\ bcast'.tried = (IF bcast'.kind = "typing" THEN OpenNow \ {bcast'.from}
                             ELSE OpenNow)
          /\ \A p \in Conn : inbox'[p] # inbox[p] => readyState[p] = "open"
     ELSE inbox' = inbox]_vars

\* C12 witness: a chat fan-out ran after a connection that was OPEN at acceptance
\* had left OPEN and another had joined: the first got nothing, the second the frame.
C12_Witness ==
  \E i \in 1..Len(tasks), p \in Conn, q \in Conn :
    /\ tasks[i].pc = "done" /\ bcast.kind = "chat" /\ bcast.frame.id = tasks[i].msg.id
    /\ p \in tasks[i].audience /\ readyState[p] # "open"
    /\ p \notin bcast.tried /\ inbox[p] = <<>>
    /\ q \notin tasks[i].audience /\ q \in bcast.tried
    /\ inbox[q] = <<Entry(tasks[i].conn, bcast.frame)>>

\* The types each variant's handler has a branch for.
KnownTypes ==
  IF variant \in {"robust", "advanced"}
  THEN {"registerUser", "typing", "stopTyping"} \cup ChatTypes
  ELSE IF variant = "brandnew"
  THEN {"register", "typing_start", "typing_stop", "text_message", "image_message"}
  ELSE {"register", "typing_start", "typing_stop", "text_message", "image_message",
        "messages_fetch"}

\* Text that is no JSON, a type with no branch, or (part_001, server.js) a chat
\* frame with no username.
Discarded(raw) ==
  \/ ~raw.wellFormed
  \/ raw.data.type \notin KnownTypes
  \/ /\ variant \in {"robust", "advanced"}
     /\ raw.data.type \in ChatTypes
     /\ raw.data.username \in {Undefined, ""}

HandledFrame == nctl' # nctl \/ Len(tasks') # Len(tasks)

Accepted == Len(tasks') = Len(tasks) + 1
C14_AuthorIsBoundIdentity ==
  [][(/\ HandledFrame /\ variant = "robust"
      /\ lastIn'.raw.wellFormed /\ lastIn'.raw.data.type \in ChatTypes) =>
       /\ Accepted <=> Truthy(username[lastIn'.conn])
       /\ Accepted => tasks'[Len(tasks')].msg.username = username[lastIn'.conn]]_vars

\* C15: in part_001 and server.js the frame of a typing or stopTyping event
\* carries the sender's bound username, or "Anonymous" when none is bound.
C15_TypingName ==
  [][(FannedOut /\ bcast'.kind = "typing" /\ variant \in {"robust", "advanced"}) =>
       bcast'.frame.username = IF Truthy(username[bcast'.from])
                               THEN username[bcast'.from] ELSE "Anonymous"]_vars

\* C16: in part_001 and server.js the frame fanned out for an accepted chat
\* message has type "newChatMessage" and carries the message's kind in
\* messageType.
C16_EnvelopeDiscriminator ==
  [][(FannedOut /\ bcast'.kind = "chat" /\ variant \in {"robust", "advanced"}) =>
       /\ bcast'.frame.type = "newChatMessage"
       /\ bcast'.frame.messageType \in {"text", "image", "audio"}]_vars

\* C17: in part_001, with no failed read, write or send, the timestamps of the
\* stored sequence never decrease from one entry to the next.
C17_TimestampsMonotonic ==
  (variant = "robust" /\ nfails = 0) =>
    \A k \in 1..(Len(file) - 1) : file[k].timestamp <= file[k + 1].timestamp

IsPrefix(a, b) == Len(a) <= Len(b) /\ \A k \in 1..Len(a) : a[k] = b[k]
InFlight(i) == i \in 1..Len(tasks) /\ tasks[i].pc \in {"mkdir", "write"}
WroteOk(i) ==
  /\ i \in 1..Len(tasks) /\ tasks[i].pc = "write"
  /\ tasks'[i].pc = "resume" /\ tasks'[i].wok

\* C18: in part_002, with no failed mkdir, write or send, the file is always a prefix of the in-memory array, a write
\* never makes the file shorter or different from what it held, and a write that
\* succeeds while no other writeJson is in flight leaves the file equal to the
\* array.
C18_LogFollowsMemory ==
  [][(variant = "memory" /\ nfails' = 0) =>
       /\ IsPrefix(file', messages')
       /\ IsPrefix(file, file')
       /\ \A i \in 1..StoreChat :
            (WroteOk(i) /\ \A j \in 1..StoreChat : j # i => ~InFlight(j)) =>
              file' = messages']_vars

\* The registration frame of the running variant.
RegisterType == IF variant \in {"robust", "advanced"} THEN "registerUser" ELSE "register"

\* C19: the handling of a registration frame sets the username of the connection
\* it came on to the frame's username, whatever the other connections hold, and
\* changes nothing else: no loop runs, no inbox grows, the file, the in-memory
\* array, the pending handlers and every other connection are as before.
C19_RegisterOnlyBinds ==
  [][(/\ HandledFrame
      /\ lastIn'.raw.wellFormed
      /\ lastIn'.raw.data.type = RegisterType) =>
       /\ username' = [username EXCEPT ![lastIn'.conn] = lastIn'.raw.data.username]
       /\ UNCHANGED <<file, messages, tasks, inbox, bcast, readyState, clients,
                      isAlive, halted, nfails>>]_vars

\* C19 witness: part_001 or server.js, two OPEN connections have registered the
\* same name one after the other and nothing was ever sent.
C19_Witness ==
  /\ variant \in {"robust", "advanced"}
  /\ \A c \in Conn : readyState[c] = "open" /\ username[c] = "alice"
  /\ lastIn.raw.wellFormed /\ lastIn.raw.data.type = "registerUser"
  /\ nctl = 2 /\ bcast.n = 0 /\ \A c \in Conn : inbox[c] = <<>>

\* The connections a step tears down: they leave OPEN, or their 'close' is emitted.
Torn == {c \in Conn : readyState[c] \in {"open", "closing"} /\ readyState'[c] # readyState[c]}

\* C20: in part_001 a step that tears connections down takes one connection,
\* or, when it is a heartbeat tick, only connections that had not answered the
\* previous probe; every other connection keeps its readyState and username, and
\* its isAlive unless the tick probes it; the file and the pending handlers are
\* untouched and the process goes on, so the handlers and the heartbeat still run.
C20_TeardownIsLocal ==
  [][Torn # {} =>
       /\ IF nticks' = nticks
          THEN Cardinality(Torn) = 1
          ELSE \A c \in Torn : isAlive[c] = FALSE
       /\ \A b \in Conn \ Torn :
            /\ readyState'[b] = readyState[b]
            /\ username'[b] = username[b]
            /\ nticks' = nticks => isAlive'[b] = isAlive[b]
       /\ UNCHANGED <<file, tasks>>
       /\ ~halted']_vars

\* C20 witness: a connection was evicted by the heartbeat and closed while the
\* chat handler of another connection was suspended; that handler has finished
\* and fanned out to the connections still OPEN, its own among them.
C20_Witness ==
  \E c \in Conn, i \in 1..Len(tasks) :
    /\ readyState[c] = "closed" /\ missed[c] = 2
    /\ tasks[i].conn # c /\ c \in tasks[i].audience
    /\ tasks[i].pc = "done"
    /\ readyState[tasks[i].conn] = "open"
    /\ bcast.kind = "chat" /\ bcast.frame.id = tasks[i].msg.id
    /\ c \notin bcast.tried /\ tasks[i].conn \in bcast.tried
    /\ ~halted

\* C21: in part_001, server.js and part_002 no frame, however malformed, and no
\* failed send in a message handler, a close handler or a tick ends the process.
C21_HandlersNeverHalt ==
  variant \in {"robust", "advanced", "memory"} => ~halted

\* C22: once the startup of part_001 or part_002 has run to its end with no
\* traffic, the file holds exactly the log the server started over, and, if no
\* read, write or mkdir failed, so does the in-memory array of part_002.
C22_StartupKeepsHistory ==
  (boot.pc = "done" /\ tasks = <<>>) =>
     /\ file = boot.log0
     /\ (variant = "memory" /\ nfails = 0) => messages = boot.log0

\* C29: in part_002, with no failed read, write, mkdir or send, once the startup
\* has run to its end the in-memory array starts with the loaded log and holds
\* every message accepted so far.
C29_AcceptedDuringStartupKept ==
  (variant = "memory" /\ nfails = 0 /\ boot.pc = "done") =>
     /\ IsPrefix(boot.log0, messages)
     /\ \A i \in 1..Len(tasks) : Occurrences(messages, tasks[i].msg) = 1

\* The lists of the messages_update frames one connection has received.
ListsOf(c) ==
  LET upd == SelectSeq(inbox[c], LAMBDA e : e.frame.type = "messages_update")
  IN [k \in 1..Len(upd) |-> upd[k].frame.messages]

\* C30: in part_002, with no failed read, write, mkdir or send, each messages_update list a connection receives has the list
\* it received before as a prefix.
C30_ListsOnlyGrow ==
  (variant = "memory" /\ nfails = 0) =>
    \A c \in Conn : \A k \in 1..(Len(ListsOf(c)) - 1) :
      IsPrefix(ListsOf(c)[k], ListsOf(c)[k + 1])
\* C23: in part_001 and server.js, with no failed read or write, the users file
\* never holds two names equal ignoring case, no two requests for names equal
\* ignoring case are both answered 201, and once every request has finished the
\* name of each request answered 201 is in the users file.
C23_RegistrationUnique ==
  (variant \in {"robust", "advanced"} /\ nfails = 0) =>
     /\ \A j, k \in 1..Len(users) :
          ToLowerCase(users[j]) = ToLowerCase(users[k]) => j = k
     /\ \A j, k \in 1..Len(regs) :
          (regs[j].status = 201 /\ regs[k].status = 201
             /\ ToLowerCase(regs[j].name) = ToLowerCase(regs[k].name)) => j = k
     /\ (\A j \in 1..Len(regs) : regs[j].pc = "done") =>
          \A j \in 1..Len(regs) : regs[j].status = 201 => regs[j].name \in Range(users)
NoTwo(seq) == \A j, k \in 1..Len(seq) : seq[j] = seq[k] => j = k

\* C24: the accepted messages carry pairwise different ids; every entry of the
\* file and of the in-memory array is an accepted message as it was accepted, no
\* two entries share an id, and in part_001 every chat frame a connection holds
\* carries the id, author and content of one accepted message of its sender, and
\* no connection holds two chat frames with one id.
C24_IdsUnique ==
  /\ NoTwo([i \in 1..Len(tasks) |-> tasks[i].msg.id])
  /\ NoTwo(Ids(file)) /\ NoTwo(Ids(messages))
  /\ \A k \in 1..Len(file) : \E i \in 1..Len(tasks) : file[k] = tasks[i].msg
  /\ \A k \in 1..Len(messages) : \E i \in 1..Len(tasks) : messages[k] = tasks[i].msg
  /\ variant = "robust" =>
       \A c \in Conn :
         /\ NoTwo(ChatIdsOf(inbox[c]))
         /\ \A k \in 1..Len(ChatEntries(inbox[c])) :
              \E i \in 1..Len(tasks) :
                /\ tasks[i].pc = "done"
                /\ ChatEntries(inbox[c])[k] = Entry(tasks[i].conn, RobustPayload(tasks[i].msg))
                /\ ChatEntries(inbox[c])[k].frame.id = tasks[i].msg.id

\* C24 witness: in part_001 two handlers have finished, the file holds both
\* messages under different ids, and a connection holds the two chat frames with
\* the ids of the stored entries.
C24_Witness ==
  /\ variant = "robust" /\ AllDone /\ Len(tasks) = 2 /\ Len(file) = 2
  /\ file[1].id # file[2].id
  /\ \E c \in Conn : Range(ChatIdsOf(inbox[c])) = Range(Ids(file))
\* A tick of the heartbeat terminates c: c leaves OPEN in a step that runs the tick.
TickTerminates(c) ==
  nticks' = nticks + 1 /\ readyState[c] = "open" /\ readyState'[c] # "open"

\* C25: in part_001 a newly accepted connection starts with isAlive true, a pong
\* sets it back to true, and a tick terminates no connection whose isAlive is
\* true: only a connection that an earlier tick has probed and that has not
\* answered since is terminated.
C25_AnsweringIsSafe ==
  [][variant = "robust" =>
       \A c \in Conn :
         /\ (readyState[c] = "none" /\ readyState'[c] = "open") =>
              (isAlive'[c] = TRUE /\ missed'[c] = 0)
         /\ (missed[c] > 0 /\ missed'[c] = 0) => isAlive'[c] = TRUE
         /\ TickTerminates(c) => (isAlive[c] = FALSE /\ missed[c] > 0)
         /\ (nticks' = nticks + 1 /\ c \in Range(clients) /\ missed[c] = 0) =>
              (readyState'[c] = readyState[c] /\ c \in Range(clients'))]_vars

\* C25 witness: both connections were registered when each of the two ticks ran
\* (the second has been probed twice without an answer and was terminated); the
\* first answered the first probe and is still OPEN after the second tick.
C25_Witness ==
  /\ variant = "robust" /\ nticks = 2
  /\ missed[2] = 2 /\ readyState[2] # "open"
  /\ missed[1] = 1 /\ readyState[1] = "open" /\ 1 \in Range(clients)
\* C26: a tick of part_001 terminates every registered connection whose isAlive
\* is false, leaves its flag false and calls no ping on it; on every other
\* registered connection it sets isAlive to false, calls ping once and leaves the
\* readyState alone; a connection that is not registered is not touched.
C26_TickPartition ==
  [][(variant = "robust" /\ nticks' = nticks + 1) =>
       \A c \in Conn :
         IF c \notin Range(clients)
         THEN readyState'[c] = readyState[c] /\ isAlive'[c] = isAlive[c] /\ c \notin pinged'
         ELSE IF isAlive[c] = FALSE
         THEN readyState'[c] = "closing" /\ isAlive'[c] = FALSE /\ c \notin pinged'
         ELSE readyState'[c] = readyState[c] /\ isAlive'[c] = FALSE /\ c \in pinged']_vars

\* C26 witness: the second tick has just run over two registered connections: it
\* terminated the one that had not answered and probed the one that had.
C26_Witness ==
  /\ variant = "robust" /\ nticks = 2
  /\ \E c, d \in Range(clients) :
       /\ missed[c] = 2 /\ readyState[c] = "closing" /\ c \notin pinged
       /\ missed[d] = 1 /\ readyState[d] = "open" /\ pinged = {d} /\ isAlive[d] = FALSE
\* The kind the claim assigns to a chat frame type.
ClaimedKind(t) ==
  CASE t = "chatMessage" -> "text" [] t = "imageMessage" -> "image" [] OTHER -> "audio"

\* C27: in part_001 and server.js the message made from an accepted chat frame
\* has kind text, image or audio for chatMessage, imageMessage or audioMessage;
\* its content is the frame's text when a chatMessage carries one and the frame's
\* filePath when an imageMessage or audioMessage carries one.
C27_KindAndContent ==
  [][(Accepted /\ variant \in {"robust", "advanced"}) =>
       LET d == lastIn'.raw.data
           m == tasks'[Len(tasks')].msg
       IN /\ m.type = ClaimedKind(d.type)
          /\ (d.type = "chatMessage" /\ Truthy(d.text)) => m.content = d.text
          /\ (d.type # "chatMessage" /\ Truthy(d.filePath)) => m.content = d.filePath]_vars
\* C28: in part_001 the handling of an inbound frame leaves every isAlive as it
\* was; isAlive goes from false to true only when the connection is accepted or
\* in a step that handles no frame, runs no tick and resumes no handler (the
\* pong); and a connection that two ticks have probed without a pong in between
\* is not OPEN once the second tick has run, whatever frames it sent.
C28_OnlyPongConfirms ==
  [][variant = "robust" =>
       /\ HandledFrame => isAlive' = isAlive
       /\ \A c \in Conn :
            (isAlive[c] = FALSE /\ isAlive'[c] = TRUE /\ readyState[c] # "none") =>
              /\ ~HandledFrame /\ lastIn' = lastIn /\ tasks' = tasks /\ nticks' = nticks
              /\ readyState' = readyState /\ inbox' = inbox
       /\ \A c \in Conn : missed'[c] >= 2 => readyState'[c] # "open"]_vars

\* C28 witness: a connection had a chat message accepted and a control frame
\* handled, answered no probe, and has been terminated by the second tick.
C28_Witness ==
  \E c \in Conn, i \in 1..Len(tasks) :
    /\ variant = "robust" /\ nticks = 2
    /\ tasks[i].conn = c /\ lastIn.conn = c /\ nctl > 0
    /\ missed[c] = 2 /\ isAlive[c] = FALSE /\ readyState[c] = "closing"
\* C31: in part_001 the handler of a chat message whose sender is no longer OPEN
\* goes on as for any other: its read yields the file's entries followed by the
\* message, its successful write leaves the file ending with the message, and
\* when it resumes one loop tries the chat frame on exactly the connections that
\* are OPEN then and delivers it where the send does not throw; the sender
\* receives nothing.
C31_ClosedSenderStillServed ==
  [][variant = "robust" =>
       \A i \in 1..Len(tasks) :
         readyState[tasks[i].conn] # "open" =>
           /\ (tasks[i].pc = "read" /\ tasks'[i].pc = "write" /\ tasks'[i].rok) =>
                tasks'[i].snapshot = Append(file, tasks[i].msg)
           /\ WroteOk(i) =>
                /\ file' = tasks[i].snapshot
                /\ Len(file') > 0 /\ file'[Len(file')] = tasks[i].msg
           /\ Resumed(i) =>
                /\ bcast'.n = bcast.n + 1 /\ bcast'.kind = "chat"
                /\ bcast'.frame = RobustPayload(tasks[i].msg)
                /\ bcast'.tried = OpenNow
                /\ \A p \in Conn :
                     inbox'[p] = IF p \in OpenNow \ bcast'.failed
                                 THEN Append(inbox[p], Entry(tasks[i].conn, bcast'.frame))
                                 ELSE inbox[p]
                /\ inbox'[tasks[i].conn] = inbox[tasks[i].conn]]_vars

\* C31 witness: a handler has finished whose sender was OPEN at acceptance and
\* closed before the fan-out: the file ends with its message, a connection that
\* was OPEN at the fan-out holds the frame, the sender holds no chat frame.
C31_Witness ==
  \E i \in 1..Len(tasks), q \in Conn :
    /\ variant = "robust" /\ tasks[i].pc = "done" /\ tasks[i].wok
    /\ tasks[i].conn \in tasks[i].audience /\ readyState[tasks[i].conn] = "closed"
    /\ bcast.kind = "chat" /\ bcast.frame.id = tasks[i].msg.id
    /\ tasks[i].conn \notin bcast.tried /\ q \in bcast.tried \ bcast.failed
    /\ Len(file) > 0 /\ file[Len(file)] = tasks[i].msg
    /\ inbox[q][Len(inbox[q])] = Entry(tasks[i].conn, RobustPayload(tasks[i].msg))
    /\ ChatEntries(inbox[tasks[i].conn]) = <<>>
\* C32: in part_001 and server.js the 'close' of a connection with no username
\* bound runs no loop and grows no inbox, and the 'close' of any connection
\* leaves the inbox of that connection as it was.
C32_TeardownFrames ==
  [][(variant = "robust" \/ variant = "advanced") =>
       \A c \in Conn :
         (readyState[c] = "closing" /\ readyState'[c] = "closed") =>
           /\ ~Truthy(username[c]) => (inbox' = inbox /\ bcast' = bcast)
           /\ inbox'[c] = inbox[c]
           /\ (c \notin bcast'.tried \/ bcast' = bcast)]_vars

\* C32 witness: a connection with a username closed and its userStopTyping frame
\* reached the other, which was OPEN then; the first holds nothing. The other,
\* with no username, has closed since, and the last loop run is still the first's.
C32_Witness ==
  \E c, p \in Conn :
    /\ variant \in {"robust", "advanced"} /\ c # p
    /\ readyState[c] = "closed" /\ Truthy(username[c])
    /\ bcast.kind = "close" /\ bcast.from = c /\ bcast.tried = {p} /\ bcast.failed = {}
    /\ inbox[c] = <<>>
    /\ inbox[p] = <<Entry(c, Frame("userStopTyping", username[c], 0, Undefined, Undefined, <<>>))>>
    /\ readyState[p] = "closed" /\ ~Truthy(username[p])
====
